---- MODULE Spec2Model ----
(***************************************************************************)
(* E-learning API (src/main.py, src/schemas.py): courses, lessons nested   *)
(* under courses and enrollments, kept in three collections of a document  *)
(* store.  Every store call is one atomic step; a handler that makes two   *)
(* store calls (create_lesson, enroll, seed_data) is two steps, and other  *)
(* requests may run between them.                                          *)
(*                                                                         *)
(* Texts that the code searches or parses (title, description, search,     *)
(* course_id) are sequences of one-character strings; texts it only stores *)
(* and compares (category, level, author, urls, tags) are strings.         *)
(***************************************************************************)
EXTENDS Integers, Sequences, FiniteSets, Bags, TLC

\* Spec: at most this many documents are inserted, all collections together.
MaxDocs == 3

\* CatalogSpec: at most this many course documents are inserted.
MaxCatalog == 4

\* The workers that can hold a request between its two store calls.
Slots == {"r1", "r2"}

VARIABLES
    db,          \* the store handle of database.py: "None" or "connected"
    course,      \* collection "course": documents in insertion order
    lesson,      \* collection "lesson"
    enrollment,  \* collection "enrollment"
    inflight,    \* bag of the requests between their two store calls
    resp,        \* the HTTP response just produced, NoResp once delivered
    created,     \* history: the successful POST /api/courses (input and id)
    seeded       \* history: the id lists returned by POST /api/seed

vars == <<db, course, lesson, enrollment, inflight, resp, created, seeded>>

None == "None"

----------------------------------------------------------------------------
(* Characters *)

UpperLetters ==
    <<"A","B","C","D","E","F","G","H","I","J","K","L","M",
      "N","O","P","Q","R","S","T","U","V","W","X","Y","Z">>

LowerLetters ==
    <<"a","b","c","d","e","f","g","h","i","j","k","l","m",
      "n","o","p","q","r","s","t","u","v","w","x","y","z">>

Letter == 1..Len(UpperLetters)

\* c.lower() and c.upper() for one character
Lower(c) ==
    IF \E i \in Letter : UpperLetters[i] = c
    THEN LowerLetters[CHOOSE i \in Letter : UpperLetters[i] = c]
    ELSE c

Upper(c) ==
    IF \E i \in Letter : LowerLetters[i] = c
    THEN UpperLetters[CHOOSE i \in Letter : LowerLetters[i] = c]
    ELSE c

UpperText(s) == [i \in 1..Len(s) |-> Upper(s[i])]

----------------------------------------------------------------------------
(* bson.ObjectId: twelve bytes, written as twenty-four hexadecimal digits *)

OidBytes == 12

HexDigits ==
    <<"0","1","2","3","4","5","6","7","8","9","a","b","c","d","e","f">>

\* int(c, 16) for every hexadecimal digit, in either case
HexValue ==
    [c \in {HexDigits[v] : v \in 1..Len(HexDigits)}
            \cup {Upper(HexDigits[v]) : v \in 1..Len(HexDigits)} |->
        (CHOOSE v \in 1..Len(HexDigits) : HexDigits[v] = Lower(c)) - 1]

IsHex(c) == c \in DOMAIN HexValue

HexVal(c) == HexValue[c]

\* ObjectId.is_valid(s) for a str: false for the empty string, true exactly
\* when s has 2 * 12 characters and bytes.fromhex accepts them (either case).
is_valid(s) ==
    /\ Len(s) = 2 * OidBytes
    /\ \A i \in 1..Len(s) : IsHex(s[i])

\* ObjectId(s): bytes.fromhex(s)
ObjectId(s) ==
    [i \in 1..OidBytes |-> 16 * HexVal(s[2 * i - 1]) + HexVal(s[2 * i])]

\* str(oid): the lower-case hexadecimal form
str(oid) ==
    [i \in 1..(2 * OidBytes) |->
        IF i % 2 = 1 THEN HexDigits[(oid[(i + 1) \div 2] \div 16) + 1]
                     ELSE HexDigits[(oid[i \div 2] % 16) + 1]]

\* A fresh identifier for the k-th document of a collection: a fixed machine
\* part, then a part that no other document has.
NewOid(name, k) ==
    <<101, 79, 171, 44, 13, 238, 90, 7, 193, 205,
      CASE name = "course" -> 1 [] name = "lesson" -> 2 [] OTHER -> 3, k>>

----------------------------------------------------------------------------------------------------------------------------------------------
(* Request data *)

\* The characters of the titles and descriptions in use, for the store's
\* regular-expression search.
Chars ==
    ("Go Basics" :>
        <<"G","o"," ","B","a","s","i","c","s">>) @@
    ("Learn Go in ten lessons with runnable examples." :>
        <<"L","e","a","r","n"," ","G","o"," ","i","n"," ","t","e","n"," ",
          "l","e","s","s","o","n","s"," ","w","i","t","h"," ","r","u","n",
          "n","a","b","l","e"," ","e","x","a","m","p","l","e","s",".">>) @@
    ("C++ in Depth" :>
        <<"C","+","+"," ","i","n"," ","D","e","p","t","h">>) @@
    ("Modern C++ for systems programmers" :>
        <<"M","o","d","e","r","n"," ","C","+","+"," ","f","o","r"," ","s",
          "y","s","t","e","m","s"," ","p","r","o","g","r","a","m","m","e",
          "r","s">>) @@
    ("Go" :>
        <<"G","o">>) @@
    ("Python for Beginners" :>
        <<"P","y","t","h","o","n"," ","f","o","r"," ","B","e","g","i","n",
          "n","e","r","s">>) @@
    ("Start coding with Python from scratch. Hands-on exercises included." :>
        <<"S","t","a","r","t"," ","c","o","d","i","n","g"," ","w","i","t",
          "h"," ","P","y","t","h","o","n"," ","f","r","o","m"," ","s","c",
          "r","a","t","c","h","."," ","H","a","n","d","s","-","o","n"," ",
          "e","x","e","r","c","i","s","e","s"," ","i","n","c","l","u","d",
          "e","d",".">>) @@
    ("UI Design Fundamentals" :>
        <<"U","I"," ","D","e","s","i","g","n"," ","F","u","n","d","a","m",
          "e","n","t","a","l","s">>) @@
    ("Learn color, typography, and layout to design beautiful interfaces." :>
        <<"L","e","a","r","n"," ","c","o","l","o","r",","," ","t","y","p",
          "o","g","r","a","p","h","y",","," ","a","n","d"," ","l","a","y",
          "o","u","t"," ","t","o"," ","d","e","s","i","g","n"," ","b","e",
          "a","u","t","i","f","u","l"," ","i","n","t","e","r","f","a","c",
          "e","s",".">>)

\* Bodies of POST /api/courses: only the fields the client sends.
CourseInputs ==
    { [title |-> "Go Basics",
       description |-> "Learn Go in ten lessons with runnable examples.",
       category |-> "Programming", author |-> "A. Dev"],
      [title |-> "C++ in Depth",
       description |-> "Modern C++ for systems programmers",
       category |-> "Systems", level |-> "Advanced", author |-> "B. Str",
       thumbnail_url |-> "https://example.com/cpp.png",
       tags |-> <<"c++", "c++">>, is_premium |-> TRUE,
       is_free_access |-> FALSE],
      [title |-> "Go",
       description |-> "Learn Go in ten lessons with runnable examples.",
       category |-> "Programming", author |-> "A. Dev"] }

\* Query parameters of GET /api/courses (an absent search and an empty one
\* are both falsy: <<>>).
CategoryInputs == {None, "Programming"}
SearchInputs == { <<>>, <<"p","Y">>, <<".">>, <<"(">> }

----------
(* schemas.py *)

TitleMinLen == 3
TitleMaxLen == 120
DescriptionMinLen == 10
DescriptionMaxLen == 2000
CategoryMinLen == 2
CategoryMaxLen == 60
AuthorMinLen == 2
AuthorMaxLen == 80

Get(d, f, default) == IF f \in DOMAIN d THEN d[f] ELSE default

\* Field constraints of the Course model (a failure is FastAPI's 422).
CourseValid(raw) ==
    /\ {"title", "description", "category", "author"} \subseteq DOMAIN raw
    /\ Len(raw.title) >= TitleMinLen /\ Len(raw.title) <= TitleMaxLen
    /\ Len(raw.description) >= DescriptionMinLen
    /\ Len(raw.description) <= DescriptionMaxLen
    /\ Len(raw.category) >= CategoryMinLen
    /\ Len(raw.category) <= CategoryMaxLen
    /\ Len(raw.author) >= AuthorMinLen /\ Len(raw.author) <= AuthorMaxLen

\* Course with is_premium defaulting to True
CoursePremiumByDefault(raw) ==
    [title |-> raw.title,
     description |-> raw.description,
     category |-> raw.category,
     level |-> Get(raw, "level", "Beginner"),
     author |-> raw.author,
     thumbnail_url |-> Get(raw, "thumbnail_url", None),
     tags |-> Get(raw, "tags", <<>>),
     is_premium |-> Get(raw, "is_premium", TRUE),
     is_free_access |-> Get(raw, "is_free_access", TRUE)]

\* The validated Course: defaults filled in for the fields not sent.
Course(raw) ==
    [title |-> raw.title,
     description |-> raw.description,
     category |-> raw.category,
     level |-> Get(raw, "level", "Beginner"),
     author |-> raw.author,
     thumbnail_url |-> Get(raw, "thumbnail_url", None),
     tags |-> Get(raw, "tags", <<>>),
     is_premium |-> Get(raw, "is_premium", FALSE),
     is_free_access |-> Get(raw, "is_free_access", TRUE)]

----------------------------------------------------------------------------
(* Responses *)

NoResp ==
    [op |-> "none", input |-> <<>>, status |-> 0, detail |-> "",
     body |-> <<>>, calls |-> <<>>]

Response(op, input, status, detail, body, calls) ==
    [op |-> op, input |-> input, status |-> status, detail |-> detail,
     body |-> body, calls |-> calls]

Idle == [op |-> "idle"]

----------------------------------------------------------------------------
(* The document store *)

\* Path and body course_id values a client may send: the identifiers the API
\* has handed out, the same in upper-case hexadecimal, a well-formed one that
\* was never assigned, and two malformed ones.
UnknownId == str(NewOid("course", 0))
ShortId == <<"4","2">>
NonHexId == [i \in 1..(2 * OidBytes) |-> IF i = 1 THEN "g" ELSE "0"]

CourseIdInputs ==
    {str(course[i]._id) : i \in 1..Len(course)}
        \cup {UpperText(str(course[i]._id)) : i \in 1..Len(course)}
        \cup {UnknownId, ShortId, NonHexId}

Collection(name) ==
    CASE name = "course" -> course
      [] name = "lesson" -> lesson
      [] name = "enrollment" -> enrollment

\* A store call raises when there is no handle (db is None) or the call fails.
Raises(fault) == db = None \/ fault

\* The record of one store call; nothing reaches the store without a handle.
Called(call, ok) == IF db = None THEN <<>> ELSE <<[call |-> call, ok |-> ok]>>

\* str(e) of what a store call raised
Raised(fault) ==
    IF db = None THEN "Database not available" ELSE "store call failed"

\* PCRE, for the patterns of SearchInputs: "." matches any character but a
\* newline, "(" opens a group (unclosed here: the pattern does not compile),
\* any other character matches itself; option "i" ignores case.
RegexCompiles(p) == \A j \in 1..Len(p) : p[j] # "("

RegexCharMatch(pc, c) ==
    IF pc = "." THEN c # "\n" ELSE Lower(pc) = Lower(c)

RegexSearch(p, text) ==
    \E k \in 0..(Len(text) - Len(p)) :
        \A j \in 1..Len(p) : RegexCharMatch(p[j], text[k + j])

\* RegexSearch over the patterns and texts in use, computed once.
RegexHits ==
    [p \in {q \in SearchInputs : RegexCompiles(q)} |->
        [t \in DOMAIN Chars |-> RegexSearch(p, Chars[t])]]

\* A course document against the filter of list_courses.
MatchesCourseFilter(d, filter) ==
    /\ "category" \in DOMAIN filter =>
           ("category" \in DOMAIN d /\ d.category = filter.category)
    /\ "regex" \in DOMAIN filter =>
           \/ "title" \in DOMAIN d /\ RegexHits[filter.regex][d.title]
           \/ "description" \in DOMAIN d
                  /\ RegexHits[filter.regex][d.description]

\* database.create_document(collection_name, data): the model's fields plus
\* the new _id; returns the identifier as a string.
create_document(collection_name, data, fault) ==
    LET call == collection_name \o ".insert_one"
        oid == NewOid(collection_name, Len(Collection(collection_name)) + 1)
    IN  IF Raises(fault)
        THEN [ok |-> FALSE, error |-> Raised(fault), id |-> <<>>,
              inserts |-> <<>>, calls |-> Called(call, FALSE)]
        ELSE [ok |-> TRUE, error |-> "", id |-> str(oid),
              inserts |-> << [coll |-> collection_name,
                              doc |-> [x \in {"_id"} |-> oid] @@ data] >>,
              calls |-> Called(call, TRUE)]

\* database.get_documents("lesson", {"course_id": course_id})
get_lessons(course_id, fault) ==
    IF Raises(fault)
    THEN [ok |-> FALSE, error |-> Raised(fault), docs |-> <<>>,
          calls |-> Called("lesson.find", FALSE)]
    ELSE [ok |-> TRUE, error |-> "",
          docs |-> SelectSeq(lesson, LAMBDA d : d.course_id = course_id),
          calls |-> Called("lesson.find", TRUE)]

\* database.get_documents("course", filter_dict): the store refuses a query
\* whose pattern does not compile.
get_courses(filter, fault) ==
    IF Raises(fault)
    THEN [ok |-> FALSE, error |-> Raised(fault), docs |-> <<>>,
          calls |-> Called("course.find", FALSE)]
    ELSE IF "regex" \in DOMAIN filter /\ ~RegexCompiles(filter.regex)
    THEN [ok |-> FALSE, error |-> "Regular expression is invalid",
          docs |-> <<>>, calls |-> Called("course.find", FALSE)]
    ELSE [ok |-> TRUE, error |-> "",
          docs |-> SelectSeq(course, LAMBDA d : MatchesCourseFilter(d, filter)),
          calls |-> Called("course.find", TRUE)]

\* db["course"].find_one({"_id": oid}): subscripting None is a TypeError.
find_one_course(oid, fault) ==
    IF Raises(fault)
    THEN [ok |-> FALSE,
          error |-> IF db = None THEN "'NoneType' object is not subscriptable"
                    ELSE "store call failed",
          found |-> FALSE, calls |-> Called("course.find_one", FALSE)]
    ELSE [ok |-> TRUE, error |-> "",
          found |-> \E i \in 1..Len(course) : course[i]._id = oid,
          calls |-> Called("course.find_one", TRUE)]

\* db["course"].insert_one({**s})
insert_one_course(s, fault) ==
    LET oid == NewOid("course", Len(course) + 1)
    IN  IF Raises(fault)
        THEN [ok |-> FALSE,
              error |-> IF db = None
                        THEN "'NoneType' object is not subscriptable"
                        ELSE "store call failed",
              id |-> <<>>, inserts |-> <<>>,
              calls |-> Called("course.insert_one", FALSE)]
        ELSE [ok |-> TRUE, error |-> "", id |-> str(oid),
              inserts |-> << [coll |-> "course",
                              doc |-> [x \in {"_id"} |-> oid] @@ s] >>,
              calls |-> Called("course.insert_one", TRUE)]

----------------------------------------------------------------------------
(* main.py: response mappers *)

HasStr(doc, f) == f \in DOMAIN doc /\ doc[f] # None

\* CourseResponse(...): title, description, category, level and author are
\* read with doc.get(f) and must be strings; tags, is_premium and
\* is_free_access have a fallback.  ok = FALSE is pydantic's ValidationError.
to_course_response(doc) ==
    IF /\ HasStr(doc, "title")
       /\ HasStr(doc, "description")
       /\ HasStr(doc, "category")
       /\ HasStr(doc, "level")
       /\ HasStr(doc, "author")
    THEN [ok |-> TRUE,
          value |-> [id |-> str(doc._id),
                     title |-> doc.title,
                     description |-> doc.description,
                     category |-> doc.category,
                     level |-> doc.level,
                     author |-> doc.author,
                     thumbnail_url |-> Get(doc, "thumbnail_url", None),
                     tags |-> Get(doc, "tags", <<>>),
                     is_premium |-> Get(doc, "is_premium", FALSE),
                     is_free_access |-> Get(doc, "is_free_access", TRUE)]]
    ELSE [ok |-> FALSE, value |-> <<>>]

\* LessonResponse(...): course_id goes through str(), title must be a string,
\* order falls back to 1.
to_lesson_response(doc) ==
    IF HasStr(doc, "title")
    THEN [ok |-> TRUE,
          value |-> [id |-> str(doc._id),
                     course_id |-> doc.course_id,
                     title |-> doc.title,
                     content |-> Get(doc, "content", None),
                     video_url |-> Get(doc, "video_url", None),
                     order |-> Get(doc, "order", 1)]]
    ELSE [ok |-> FALSE, value |-> <<>>]

CourseResponses(docs) == [i \in 1..Len(docs) |-> to_course_response(docs[i])]

LessonResponses(docs) == [i \in 1..Len(docs) |-> to_lesson_response(docs[i])]

AllOk(rs) == \A i \in 1..Len(rs) : rs[i].ok

Values(rs) == [i \in 1..Len(rs) |-> rs[i].value]

----------------------------------------------------------------------------
(* main.py: handlers.  Each gives the outcome of one step: the response    *)
(* (status 0: none yet), the store calls made, the documents inserted and  *)
(* what the request still has to do.                                       *)

Outcome(status, detail, body, calls, inserts, next) ==
    [status |-> status, detail |-> detail, body |-> body, calls |-> calls,
     inserts |-> inserts, next |-> next]

\* The failure reported as the client's error
ServerErrorAsBadRequest(detail, calls) ==
    Outcome(400, detail, <<>>, calls, <<>>, Idle)

\* except Exception as e: raise HTTPException(status_code=500, detail=str(e))
ServerError(detail, calls) ==
    Outcome(500, detail, <<>>, calls, <<>>, Idle)

\* raise HTTPException(status_code=400, detail="Invalid course_id")
InvalidCourseId == Outcome(400, "Invalid course_id", <<>>, <<>>, <<>>, Idle)

\* raise HTTPException(status_code=404, detail="Course not found")
CourseNotFound(calls) ==
    Outcome(404, "Course not found", <<>>, calls, <<>>, Idle)

\* POST /api/courses
create_course(c, fault) ==
    LET r == create_document("course", c, fault)
    IN  IF r.ok
        THEN Outcome(200, "", [id |-> r.id], r.calls, r.inserts, Idle)
        ELSE ServerError(r.error, r.calls)

Truthy(x) == x # None /\ x # ""

\* filter_dict of list_courses
CourseFilter(category, search) ==
    CASE Truthy(category) /\ search # <<>> ->
             [category |-> category, regex |-> search]
      [] Truthy(category) /\ search = <<>> -> [category |-> category]
      [] ~Truthy(category) /\ search # <<>> -> [regex |-> search]
      [] OTHER -> [nofilter |-> TRUE]

\* GET /api/courses
list_courses(category, search, fault) ==
    LET r == get_courses(CourseFilter(category, search), fault)
        rs == CourseResponses(r.docs)
    IN  IF ~r.ok THEN ServerError(r.error, r.calls)
        ELSE IF ~AllOk(rs) THEN ServerError("validation error", r.calls)
        ELSE Outcome(200, "", Values(rs), r.calls, <<>>, Idle)

\* list_lessons without the syntactic check of course_id
list_lessons_unchecked(course_id, fault) ==
    LET r == get_lessons(course_id, fault)
        rs == LessonResponses(r.docs)
    IN  IF ~r.ok THEN ServerError(r.error, r.calls)
        ELSE IF ~AllOk(rs) THEN ServerError("validation error", r.calls)
        ELSE Outcome(200, "", Values(rs), r.calls, <<>>, Idle)

\* list_lessons with the existence check of create_lesson
list_lessons_strict(course_id, fault) ==
    IF ~is_valid(course_id)
    THEN InvalidCourseId
    ELSE LET c == find_one_course(ObjectId(course_id), fault)
             r == get_lessons(course_id, fault)
             rs == LessonResponses(r.docs)
         IN  IF ~c.ok THEN ServerError(c.error, c.calls)
             ELSE IF ~c.found THEN CourseNotFound(c.calls)
             ELSE IF ~r.ok THEN ServerError(r.error, c.calls \o r.calls)
             ELSE Outcome(200, "", Values(rs), c.calls \o r.calls, <<>>, Idle)

\* GET /api/courses/{course_id}/lessons
list_lessons(course_id, fault) ==
    IF ~is_valid(course_id)
    THEN InvalidCourseId
    ELSE LET r == get_lessons(course_id, fault)
             rs == LessonResponses(r.docs)
         IN  IF ~r.ok THEN ServerError(r.error, r.calls)
             ELSE IF ~AllOk(rs) THEN ServerError("validation error", r.calls)
             ELSE Outcome(200, "", Values(rs), r.calls, <<>>, Idle)

\* schemas.Lesson / schemas.Enrollment: defaults for the fields not sent.
Lesson(raw) ==
    [course_id |-> raw.course_id,
     title |-> raw.title,
     content |-> Get(raw, "content", None),
     video_url |-> Get(raw, "video_url", None),
     order |-> Get(raw, "order", 1)]

Enrollment(raw) ==
    [course_id |-> raw.course_id,
     learner_name |-> Get(raw, "learner_name", None),
     email |-> Get(raw, "email", None)]

\* create_lesson without "if not course: raise 404"
create_lesson_check_any(l, fault) ==
    IF ~is_valid(l.course_id)
    THEN InvalidCourseId
    ELSE LET r == find_one_course(ObjectId(l.course_id), fault)
         IN  IF ~r.ok THEN ServerError(r.error, r.calls)
             ELSE Outcome(0, "", <<>>, r.calls, <<>>,
                          [op |-> "create_lesson", input |-> l,
                           calls |-> r.calls])

\* POST /api/lessons, up to and including the point lookup
create_lesson_check(l, fault) ==
    IF ~is_valid(l.course_id)
    THEN InvalidCourseId
    ELSE LET r == find_one_course(ObjectId(l.course_id), fault)
         IN  IF ~r.ok THEN ServerError(r.error, r.calls)
             ELSE IF ~r.found THEN CourseNotFound(r.calls)
             ELSE Outcome(0, "", <<>>, r.calls, <<>>,
                          [op |-> "create_lesson", input |-> l,
                           calls |-> r.calls])

\* POST /api/lessons, the insert
create_lesson_insert(p, fault) ==
    LET r == create_document("lesson", p.input, fault)
    IN  IF r.ok
        THEN Outcome(200, "", [id |-> r.id], p.calls \o r.calls, r.inserts, Idle)
        ELSE ServerError(r.error, p.calls \o r.calls)

\* enroll without "if not course: raise 404"
enroll_check_any(e, fault) ==
    IF ~is_valid(e.course_id)
    THEN InvalidCourseId
    ELSE LET r == find_one_course(ObjectId(e.course_id), fault)
         IN  IF ~r.ok THEN ServerError(r.error, r.calls)
             ELSE Outcome(0, "", <<>>, r.calls, <<>>,
                          [op |-> "enroll", input |-> e, calls |-> r.calls])

\* POST /api/enroll, up to and including the point lookup
enroll_check(e, fault) ==
    IF ~is_valid(e.course_id)
    THEN InvalidCourseId
    ELSE LET r == find_one_course(ObjectId(e.course_id), fault)
         IN  IF ~r.ok THEN ServerError(r.error, r.calls)
             ELSE IF ~r.found THEN CourseNotFound(r.calls)
             ELSE Outcome(0, "", <<>>, r.calls, <<>>,
                          [op |-> "enroll", input |-> e, calls |-> r.calls])

\* POST /api/enroll, the insert
enroll_insert(p, fault) ==
    LET r == create_document("enrollment", p.input, fault)
    IN  IF r.ok
        THEN Outcome(200, "", [id |-> r.id], p.calls \o r.calls, r.inserts, Idle)
        ELSE ServerError(r.error, p.calls \o r.calls)

\* samples of seed_data
Samples ==
    << [title |-> "Python for Beginners",
        description |->
            "Start coding with Python from scratch. Hands-on exercises included.",
        category |-> "Programming", level |-> "Beginner",
        author |-> "Jane Doe",
        thumbnail_url |->
            "https://images.unsplash.com/photo-1515879218367-8466d910aaa4",
        tags |-> <<"python", "basics">>, is_premium |-> TRUE,
        is_free_access |-> TRUE],
       [title |-> "UI Design Fundamentals",
        description |->
            "Learn color, typography, and layout to design beautiful interfaces.",
        category |-> "Design", level |-> "Beginner",
        author |-> "John Smith",
        thumbnail_url |->
            "https://images.unsplash.com/photo-1523246191871-2c65d1d9d43a",
        tags |-> <<"ui", "design">>, is_premium |-> TRUE,
        is_free_access |-> TRUE] >>

\* POST /api/seed on entry: ids = [], first sample next
SeedStart == [op |-> "seed", i |-> 1, ids |-> <<>>, calls |-> <<>>]

\* seed_data made idempotent: a sample that is already stored is not inserted
\* again, its identifier is reused.
seed_data_once(p, fault) ==
    LET old == {j \in 1..Len(course) : course[j].title = Samples[p.i].title}
        r == IF old = {}
             THEN insert_one_course(Samples[p.i], fault)
             ELSE [ok |-> TRUE, error |-> "",
                   id |-> str(course[CHOOSE j \in old : TRUE]._id),
                   inserts |-> <<>>, calls |-> <<>>]
    IN  IF ~r.ok THEN ServerError(r.error, p.calls \o r.calls)
        ELSE IF p.i = Len(Samples)
        THEN Outcome(200, "", [inserted |-> p.ids \o <<r.id>>],
                     p.calls \o r.calls, r.inserts, Idle)
        ELSE Outcome(0, "", <<>>, p.calls \o r.calls, r.inserts,
                     [op |-> "seed", i |-> p.i + 1, ids |-> p.ids \o <<r.id>>,
                      calls |-> p.calls \o r.calls])

\* One turn of "for s in samples": insert_one, append the id; after the last
\* sample return the ids.
seed_data(p, fault) ==
    LET r == insert_one_course(Samples[p.i], fault)
    IN  IF ~r.ok THEN ServerError(r.error, p.calls \o r.calls)
        ELSE IF p.i = Len(Samples)
        THEN Outcome(200, "", [inserted |-> p.ids \o <<r.id>>],
                     p.calls \o r.calls, r.inserts, Idle)
        ELSE Outcome(0, "", <<>>, p.calls \o r.calls, r.inserts,
                     [op |-> "seed", i |-> p.i + 1, ids |-> p.ids \o <<r.id>>,
                      calls |-> p.calls \o r.calls])

----------------------------------------------------------------------------
(* The state machine *)

LessonInputs == {[course_id |-> c, title |-> "Intro"] : c \in CourseIdInputs}

EnrollmentInputs ==
    {[course_id |-> c, learner_name |-> "Ann", email |-> "not-an-email"] :
        c \in {str(course[i]._id) : i \in 1..Len(course)}
                  \cup {UnknownId, ShortId}}

Init ==
    /\ db \in {None, "connected"}
    /\ course = <<>>
    /\ lesson = <<>>
    /\ enrollment = <<>>
    /\ inflight = EmptyBag
    /\ resp = NoResp
    /\ created = {}
    /\ seeded = <<>>

Inserted(out, name) ==
    LET hits == SelectSeq(out.inserts, LAMBDA x : x.coll = name)
    IN  [i \in 1..Len(hits) |-> hits[i].doc]

\* The effect of one handler step on the store and on the wire.
Apply(op, input, out) ==
    /\ resp = NoResp
    /\ course' = course \o Inserted(out, "course")
    /\ lesson' = lesson \o Inserted(out, "lesson")
    /\ enrollment' = enrollment \o Inserted(out, "enrollment")
    /\ resp' = IF out.status = 0 THEN NoResp
               ELSE Response(op, input, out.status, out.detail, out.body,
                             out.calls)
    /\ db' = db

\* A request enters its first step: if the step does not answer, the request
\* waits in a slot for its next store call.
Begin(out) ==
    /\ out.status = 0 => BagCardinality(inflight) < Cardinality(Slots)
    /\ inflight' = IF out.status = 0 THEN inflight (+) SetToBag({out.next})
                   ELSE inflight

\* A waiting request p takes its next step.
Continue(p, out) ==
    inflight' = IF out.status = 0
                THEN (inflight (-) SetToBag({p})) (+) SetToBag({out.next})
                ELSE inflight (-) SetToBag({p})

Waiting(op) == {p \in BagToSet(inflight) : p.op = op}

CreateCourse(raw, fault) ==
    /\ resp = NoResp
    /\ IF CourseValid(raw)
       THEN LET out == create_course(Course(raw), fault)
            IN  /\ Apply("create_course", raw, out)
                /\ created' = IF out.status = 200
                              THEN created \cup {[id |-> out.body.id, input |-> raw]}
                              ELSE created
       ELSE /\ resp' = Response("create_course", raw, 422, "validation_error",
                                <<>>, <<>>)
            /\ UNCHANGED <<db, course, lesson, enrollment, created>>
    /\ UNCHANGED <<inflight, seeded>>

ListCourses(category, search, fault) ==
    /\ Apply("list_courses", [category |-> category, search |-> search],
             list_courses(category, search, fault))
    /\ UNCHANGED <<inflight, created, seeded>>

ListLessons(course_id, fault) ==
    /\ Apply("list_lessons", course_id, list_lessons(course_id, fault))
    /\ UNCHANGED <<inflight, created, seeded>>

CreateLessonCheck(raw, fault) ==
    /\ LET out == create_lesson_check(Lesson(raw), fault)
       IN  Apply("create_lesson", raw, out) /\ Begin(out)
    /\ UNCHANGED <<created, seeded>>

CreateLessonInsert(p, fault) ==
    /\ LET out == create_lesson_insert(p, fault)
       IN  Apply("create_lesson", p.input, out) /\ Continue(p, out)
    /\ UNCHANGED <<created, seeded>>

EnrollCheck(raw, fault) ==
    /\ LET out == enroll_check(Enrollment(raw), fault)
       IN  Apply("enroll", raw, out) /\ Begin(out)
    /\ UNCHANGED <<created, seeded>>

EnrollInsert(p, fault) ==
    /\ LET out == enroll_insert(p, fault)
       IN  Apply("enroll", p.input, out) /\ Continue(p, out)
    /\ UNCHANGED <<created, seeded>>

SeedFirst(fault) ==
    /\ LET out == seed_data(SeedStart, fault)
       IN  Apply("seed", <<>>, out) /\ Begin(out)
    /\ UNCHANGED <<created, seeded>>

SeedNext(p, fault) ==
    /\ LET out == seed_data(p, fault)
       IN  /\ Apply("seed", <<>>, out)
           /\ Continue(p, out)
           /\ seeded' = IF out.status = 200
                        THEN Append(seeded, out.body.inserted)
                        ELSE seeded
    /\ UNCHANGED created

\* The client reads the response.
Deliver ==
    /\ resp # NoResp
    /\ resp' = NoResp
    /\ UNCHANGED <<db, course, lesson, enrollment, inflight, created, seeded>>

DocCount == Len(course) + Len(lesson) + Len(enrollment)

\* One response is on the wire at a time: the client reads it before the next
\* step runs.
Ready == resp = NoResp

\* The whole API.
InSpec == DocCount' <= MaxDocs

Next ==
    \/ Ready /\ \E raw \in {r \in CourseInputs : r.category = "Programming"},
          fault \in BOOLEAN : CreateCourse(raw, fault) /\ InSpec
    \/ Ready /\ \E c \in CategoryInputs, q \in SearchInputs, fault \in BOOLEAN :
           ListCourses(c, q, fault)
    \/ Ready /\ \E c \in CourseIdInputs, fault \in BOOLEAN : ListLessons(c, fault)
    \/ Ready /\ \E raw \in LessonInputs, fault \in BOOLEAN : CreateLessonCheck(raw, fault)
    \/ Ready /\ \E p \in Waiting("create_lesson"), fault \in BOOLEAN :
           CreateLessonInsert(p, fault) /\ InSpec
    \/ Ready /\ \E raw \in EnrollmentInputs, fault \in BOOLEAN : EnrollCheck(raw, fault)
    \/ Ready /\ \E p \in Waiting("enroll"), fault \in BOOLEAN :
           EnrollInsert(p, fault) /\ InSpec
    \/ Ready /\ \E fault \in BOOLEAN : SeedFirst(fault) /\ InSpec
    \/ Ready /\ \E p \in Waiting("seed"), fault \in BOOLEAN : SeedNext(p, fault) /\ InSpec
    \/ Deliver

Spec == Init /\ [][Next]_vars

\* The catalog alone: courses are created, seeded and listed.
InCatalog == Len(course') <= MaxCatalog

CatalogNext ==
    \/ Ready /\ \E raw \in CourseInputs, fault \in BOOLEAN :
           CreateCourse(raw, fault) /\ InCatalog
    \/ Ready /\ \E c \in CategoryInputs, q \in SearchInputs, fault \in BOOLEAN :
           ListCourses(c, q, fault)
    \/ Ready /\ \E fault \in BOOLEAN : SeedFirst(fault) /\ InCatalog
    \/ Ready /\ \E p \in Waiting("seed"), fault \in BOOLEAN :
           SeedNext(p, fault) /\ InCatalog
    \/ Deliver

CatalogSpec == Init /\ [][CatalogNext]_vars

----------------------------------------------------------------------------
(* Documents written to the store by other means: any optional field may   *)
(* be absent.  The listings are run over them.                             *)

OptionalCourseFields ==
    {"level", "thumbnail_url", "tags", "is_premium", "is_free_access"}

OptionalLessonFields == {"content", "video_url", "order"}

Without(doc, fields) == [f \in (DOMAIN doc) \ fields |-> doc[f]]

StoredCourse ==
    [x \in {"_id"} |-> NewOid("course", 1)] @@ Samples[1]

StoredLesson ==
    [x \in {"_id"} |-> NewOid("lesson", 1)] @@
        [course_id |-> str(NewOid("course", 1)), title |-> "Intro",
         content |-> "# Intro", video_url |-> "https://example.com/v.mp4",
         order |-> 2]

OutOfBandInit ==
    /\ db = "connected"
    /\ \E F \in SUBSET OptionalCourseFields :
           course = <<Without(StoredCourse, F)>>
    /\ \E G \in SUBSET OptionalLessonFields :
           lesson = <<Without(StoredLesson, G)>>
    /\ enrollment = <<>>
    /\ inflight = EmptyBag
    /\ resp = NoResp
    /\ created = {}
    /\ seeded = <<>>

OutOfBandNext ==
    \/ Ready /\ \E c \in CategoryInputs, q \in SearchInputs, fault \in BOOLEAN :
           ListCourses(c, q, fault)
    \/ Ready /\ \E c \in CourseIdInputs, fault \in BOOLEAN : ListLessons(c, fault)
    \/ Deliver

OutOfBandSpec == OutOfBandInit /\ [][OutOfBandNext]_vars

----------------------------------------------------------------------------
(* Properties *)

RefOps == {"create_lesson", "enroll", "list_lessons"}

\* The course_id a request carried.
CourseIdOf(r) == IF r.op = "list_lessons" THEN r.input ELSE r.input.course_id

\* The response reports a store that was unreachable or a store call that
\* failed for reasons outside the request.
StoreFault(r) ==
    r.detail \in {"store call failed", "Database not available",
                  "'NoneType' object is not subscriptable"}

FailedCall(r) == \E i \in 1..Len(r.calls) : ~r.calls[i].ok

\* course_id is well formed and some course document has that identifier.
Resolves(course_id) ==
    /\ is_valid(course_id)
    /\ \E i \in 1..Len(course) : course[i]._id = ObjectId(course_id)

Answered == resp = NoResp /\ resp' # NoResp

\* C1: a CreateLesson or Enroll request whose course_id is well formed but
\* names no course in the collection is answered 404, and the step that
\* answers leaves the three collections as they were.
C1_NotFoundLeavesStoreUnchanged ==
    [][ ( /\ Answered
          /\ resp'.op \in {"create_lesson", "enroll"}
          /\ is_valid(resp'.input.course_id)
          /\ ~Resolves(resp'.input.course_id)
          /\ ~StoreFault(resp') )
        => ( /\ resp'.status = 404
             /\ resp'.detail = "Course not found"
             /\ UNCHANGED <<course, lesson, enrollment>> ) ]_vars

C1_Witness ==
    /\ resp.op = "create_lesson"
    /\ resp.status = 404
    /\ course # <<>>
    /\ lesson # <<>>

\* C2: a CreateLesson, Enroll or ListLessons request whose course_id is not
\* well formed is answered 400 with no store call made and the store
\* unchanged, whether or not there is a store handle.
C2_InvalidIdRejectedBeforeStore ==
    [][ ( /\ Answered
          /\ resp'.op \in RefOps
          /\ ~is_valid(CourseIdOf(resp')) )
        => ( /\ resp'.status = 400
             /\ resp'.calls = <<>>
             /\ UNCHANGED <<course, lesson, enrollment>> ) ]_vars

C2_Witness ==
    /\ db = None
    /\ resp.op = "create_lesson"
    /\ resp.status = 400
    /\ ~is_valid(resp.input.course_id)

ExpectedCreated(c) ==
    [id |-> c.id,
     title |-> c.input.title,
     description |-> c.input.description,
     category |-> c.input.category,
     level |-> Get(c.input, "level", "Beginner"),
     author |-> c.input.author,
     thumbnail_url |-> Get(c.input, "thumbnail_url", None),
     tags |-> Get(c.input, "tags", <<>>),
     is_premium |-> Get(c.input, "is_premium", FALSE),
     is_free_access |-> Get(c.input, "is_free_access", TRUE)]

Unfiltered == [category |-> None, search |-> <<>>]

\* C3: a valid CreateCourse is answered with an identifier (unless the store
\* fails), and from then on the unfiltered listing holds a course with that
\* identifier and the input's fields, the defaults filled in.
C3_CreatedCoursesAreListed ==
    /\ (resp.op = "create_course" /\ CourseValid(resp.input) /\ ~StoreFault(resp))
           => /\ resp.status = 200
              /\ is_valid(resp.body.id)
              /\ [id |-> resp.body.id, input |-> resp.input] \in created
    /\ \A c \in created :
           LET out == list_courses(None, <<>>, FALSE)
           IN  /\ out.status = 200
               /\ \E i \in 1..Len(out.body) : out.body[i] = ExpectedCreated(c)
    /\ (resp.op = "list_courses" /\ resp.input = Unfiltered /\ resp.status = 200)
           => \A c \in created :
                  \E i \in 1..Len(resp.body) : resp.body[i] = ExpectedCreated(c)

C3_Witness ==
    /\ resp.op = "list_courses"
    /\ resp.input = Unfiltered
    /\ resp.status = 200
    /\ Cardinality({c.input : c \in created}) = 2
    /\ Len(course) > Cardinality(created)

\* The response the listing gives for a stored course document, an absent
\* optional field read as the default the creation path gives it.
ExpectedCourseResponse(doc) ==
    [id |-> str(doc._id),
     title |-> doc.title,
     description |-> doc.description,
     category |-> doc.category,
     level |-> Get(doc, "level", "Beginner"),
     author |-> doc.author,
     thumbnail_url |-> Get(doc, "thumbnail_url", None),
     tags |-> Get(doc, "tags", <<>>),
     is_premium |-> Get(doc, "is_premium", FALSE),
     is_free_access |-> Get(doc, "is_free_access", TRUE)]

ExpectedLessonResponse(doc) ==
    [id |-> str(doc._id),
     course_id |-> doc.course_id,
     title |-> doc.title,
     content |-> Get(doc, "content", None),
     video_url |-> Get(doc, "video_url", None),
     order |-> Get(doc, "order", 1)]

\* sub occurs in text, letter case ignored, every character taken literally.
Contains(sub, text) ==
    \E k \in 0..(Len(text) - Len(sub)) :
        \A j \in 1..Len(sub) : Lower(sub[j]) = Lower(text[k + j])

SubstringHits ==
    [q \in SearchInputs |-> [t \in DOMAIN Chars |-> Contains(q, Chars[t])]]

ExpectedListing(category, search) ==
    LET Keep(d) ==
            /\ category = None \/ d.category = category
            /\ \/ search = <<>>
               \/ SubstringHits[search][d.title]
               \/ SubstringHits[search][d.description]
        sel == SelectSeq(course, Keep)
    IN  [i \in 1..Len(sel) |-> ExpectedCourseResponse(sel[i])]

\* C4: whatever the search string, ListCourses succeeds and returns exactly
\* the courses whose category equals the given one (if given) and whose
\* title or description contains the search string (if given) as a
\* case-insensitive substring; an empty result is a success too.
C4_ListCoursesIsSubstringFilter ==
    (resp.op = "list_courses" /\ ~StoreFault(resp))
        => /\ resp.status = 200
           /\ resp.body = ExpectedListing(resp.input.category, resp.input.search)

\* C5: ListLessons with a well-formed course_id never answers 404 and never
\* looks a course up; unless the store fails it succeeds, and it returns the
\* empty sequence when no course has the identifier or no lesson refers to it.
C5_ListLessonsNeedsNoCourse ==
    (resp.op = "list_lessons" /\ is_valid(resp.input))
        => /\ resp.status # 404
           /\ \A i \in 1..Len(resp.calls) : resp.calls[i].call = "lesson.find"
           /\ ~StoreFault(resp) => resp.status = 200
           /\ (resp.status = 200 /\ ~Resolves(resp.input)) => resp.body = <<>>
           /\ ( /\ resp.status = 200
                /\ \A j \in 1..Len(lesson) :
                       ObjectId(lesson[j].course_id) # ObjectId(resp.input) )
                  => resp.body = <<>>

C5_Witness ==
    /\ resp.op = "list_lessons"
    /\ resp.input = UnknownId
    /\ resp.status = 200
    /\ resp.body = <<>>
    /\ lesson # <<>>

\* C6: the listings never fail on a stored document that lacks optional
\* fields: every returned course and lesson is the stored document with the
\* creation defaults (level "Beginner" among them) in place of what is absent.
C6_MappersApplyDefaults ==
    /\ (resp.op = "list_courses" /\ ~StoreFault(resp)
            /\ resp.detail # "Regular expression is invalid")
           => /\ resp.status = 200
              /\ \A i \in 1..Len(resp.body) :
                     \E j \in 1..Len(course) :
                         resp.body[i] = ExpectedCourseResponse(course[j])
    /\ (resp.op = "list_lessons" /\ is_valid(resp.input) /\ ~StoreFault(resp))
           => /\ resp.status = 200
              /\ \A i \in 1..Len(resp.body) :
                     \E j \in 1..Len(lesson) :
                         resp.body[i] = ExpectedLessonResponse(lesson[j])

\* C7 as stated: with the store unavailable, or a store call failing, every
\* data operation ends with 500, never with 400, 404 or a success.
C7_StoreFailureAlways500 ==
    (resp # NoResp /\ resp.status # 422 /\ (db = None \/ FailedCall(resp)))
        => resp.status = 500

\* C7: with the store unavailable, or a store call failing, a data operation
\* ends with 500, never with 404 or a success; the one other outcome is the
\* 400 that CreateLesson, Enroll and ListLessons give to a course_id that is
\* not well formed, before any store call.
C7_StoreFailure500UnlessInvalidId ==
    (resp # NoResp /\ resp.status # 422 /\ (db = None \/ FailedCall(resp)))
        => \/ resp.status = 500
           \/ /\ resp.status = 400
              /\ resp.op \in RefOps
              /\ ~is_valid(CourseIdOf(resp))
              /\ resp.calls = <<>>

C7_Witness ==
    /\ resp.op = "seed"
    /\ resp.status = 500
    /\ Len(resp.calls) = 2
    /\ resp.calls[1].ok
    /\ ~resp.calls[2].ok

Content(doc) == Without(doc, {"_id"})

SeededIds == {<<n, i>> : n \in 1..Len(seeded), i \in 1..Len(Samples)}

\* C8: every completed Seed call returned two identifiers, each naming
\* exactly one stored course whose content is the corresponding sample; the
\* identifiers of all calls are pairwise distinct, so n calls leave n
\* documents of each sample (two calls: four documents, two identical pairs).
C8_SeedInsertsTwoEachCall ==
    /\ \A n \in 1..Len(seeded) : Len(seeded[n]) = Len(Samples)
    /\ \A p \in SeededIds :
           /\ Cardinality({j \in 1..Len(course) :
                              str(course[j]._id) = seeded[p[1]][p[2]]}) = 1
           /\ \A j \in 1..Len(course) :
                  str(course[j]._id) = seeded[p[1]][p[2]]
                      => Content(course[j]) = Samples[p[2]]
    /\ \A p, q \in SeededIds :
           p # q => seeded[p[1]][p[2]] # seeded[q[1]][q[2]]
    /\ \A i \in 1..Len(Samples) :
           Cardinality({j \in 1..Len(course) : Content(course[j]) = Samples[i]})
               >= Len(seeded)

C8_Witness ==
    /\ Len(seeded) = 2
    /\ Len(course) = 4
    /\ resp.op = "seed"
    /\ resp.status = 200
    /\ Cardinality({Content(course[j]) : j \in 1..Len(course)}) = 2

\* C9: every stored lesson and every stored enrollment carries a course_id
\* that is well formed and is the identifier of a stored course.
C9_ReferentialIntegrity ==
    /\ \A i \in 1..Len(lesson) : Resolves(lesson[i].course_id)
    /\ \A i \in 1..Len(enrollment) : Resolves(enrollment[i].course_id)

C9_Witness ==
    /\ lesson # <<>>
    /\ enrollment # <<>>
    /\ inflight # EmptyBag

\* C10: a successful ListLessons for a course's identifier returns every
\* lesson that was accepted for that course, whichever accepted spelling of
\* the identifier the lesson was created with.
C10_LessonRoundTrip ==
    ( /\ resp.op = "list_lessons"
      /\ resp.status = 200
      /\ \E i \in 1..Len(course) : str(course[i]._id) = resp.input )
        => \A j \in 1..Len(lesson) :
               ObjectId(lesson[j].course_id) = ObjectId(resp.input)
                   => \E k \in 1..Len(resp.body) :
                          resp.body[k].id = str(lesson[j]._id)

====
